---- MODULE Spec2Model ----
(***************************************************************************)
(* Model of the kitties pallet (lesson5/pallets/kitties/src/lib.rs).       *)
(*                                                                         *)
(* The state is the four storage items declared by decl_storage!.  Each    *)
(* dispatchable (create, breed, transfer) is one action; the host runs     *)
(* one call to completion before the next one.  u32 is scaled down to the  *)
(* range 0..U32Max, unsigned origins and unresolvable lookup sources are   *)
(* inputs like any other.                                                  *)
(***************************************************************************)
EXTENDS Integers, FiniteSets, Sequences, TLC

\* ------------------------------------------------------------------ sizes
\* u32::max_value(), scaled down
U32Max == 3
\* number of account ids
NumAccounts == 3
\* number of dispatched calls in one run
MaxCalls == 5

\* Kitty(pub [u8; 16])
DnaLen == 16
\* u8::max_value()
U8Max == 255

U32 == 0..U32Max
U8 == 0..U8Max
Accounts == 1..NumAccounts
\* an origin is a signed account, or 0 for an origin that is not signed
Origins == Accounts \cup {0}
\* a lookup source is an account id, or 0 for a reference that does not resolve
Sources == Accounts \cup {0}

VARIABLES Kitties, KittiesCount, OwnedKitties, OwnedKittiesCount, last, pre, calls, halted

vars == <<Kitties, KittiesCount, OwnedKitties, OwnedKittiesCount, last, pre, calls, halted>>

\* ------------------------------------------------------------------ u8 bit operations
Bit(x, i) == (x \div (2 ^ i)) % 2

U8And(x, y) ==
  LET b(i) == IF Bit(x, i) = 1 /\ Bit(y, i) = 1 THEN 2 ^ i ELSE 0
  IN b(0) + b(1) + b(2) + b(3) + b(4) + b(5) + b(6) + b(7)

U8Or(x, y) ==
  LET b(i) == IF Bit(x, i) = 1 \/ Bit(y, i) = 1 THEN 2 ^ i ELSE 0
  IN b(0) + b(1) + b(2) + b(3) + b(4) + b(5) + b(6) + b(7)

U8Not(x) == U8Max - x

\* combine_dna with the two parents exchanged
combine_dna_swapped(dna1, dna2, selector) ==
  U8Or(U8And(selector, dna2), U8And(U8Not(selector), dna1))

combine_dna(dna1, dna2, selector) ==
  U8Or(U8And(selector, dna1), U8And(U8Not(selector), dna2))

\* ------------------------------------------------------------------ entropy
\* the values blake2_128 can hand out in this model
RandomValues ==
  { <<170, 85, 240, 15, 0, 255, 204, 51, 1, 128, 90, 165, 36, 219, 7, 248>>,
    <<85, 240, 170, 255, 0, 15, 51, 204, 128, 1, 165, 90, 219, 36, 248, 7>> }

\* ------------------------------------------------------------------ storage
\* the storage as one record, so that a call is a function of it
Store == [Kitties |-> Kitties, KittiesCount |-> KittiesCount,
          OwnedKitties |-> OwnedKitties, OwnedKittiesCount |-> OwnedKittiesCount]

EmptyMap == [k \in {} |-> 0]

\* StorageMap::insert and StorageMap::remove on a map held as a partial function
MapInsert(m, k, v) == [x \in (DOMAIN m) \cup {k} |-> IF x = k THEN v ELSE m[x]]
MapRemove(m, k) == [x \in (DOMAIN m) \ {k} |-> m[x]]

\* getters.  Kitties is an Option map; the two ownership maps return the
\* default value 0 for a key that is not stored.
kitties(st, id) ==
  IF id \in DOMAIN st.Kitties THEN [some |-> TRUE, v |-> st.Kitties[id]]
  ELSE [some |-> FALSE, v |-> <<>>]

kitties_count(st) == st.KittiesCount

owned_kitties(st, who, slot) ==
  IF <<who, slot>> \in DOMAIN st.OwnedKitties THEN st.OwnedKitties[<<who, slot>>] ELSE 0

owned_kitties_count(st, who) == st.OwnedKittiesCount[who]

\* ------------------------------------------------------------------ helpers of the calls
Return(res, st) == [result |-> res, st |-> st]

ensure_signed(origin) ==
  IF origin \in Accounts THEN [ok |-> TRUE, who |-> origin] ELSE [ok |-> FALSE, who |-> 0]

lookup(to) ==
  IF to \in Accounts THEN [ok |-> TRUE, who |-> to] ELSE [ok |-> FALSE, who |-> 0]

\* next_kitty_id comparing with > where == is meant
next_kitty_id_unchecked(st) ==
  LET kitty_id == kitties_count(st)
  IN IF kitty_id > U32Max THEN [ok |-> FALSE, id |-> 0] ELSE [ok |-> TRUE, id |-> kitty_id]

\* next_kitty_id refusing one id early
next_kitty_id_early(st) ==
  LET kitty_id == kitties_count(st)
  IN IF kitty_id + 1 >= U32Max THEN [ok |-> FALSE, id |-> 0] ELSE [ok |-> TRUE, id |-> kitty_id]

next_kitty_id(st) ==
  LET kitty_id == kitties_count(st)
  IN IF kitty_id = U32Max THEN [ok |-> FALSE, id |-> 0] ELSE [ok |-> TRUE, id |-> kitty_id]

\* insert_kitty storing the entity under the owner's count
insert_kitty_keyed_by_count(st, owner, kitty_id, kitty, overflow_checks) ==
  LET st1 == [st EXCEPT !.Kitties = MapInsert(@, owned_kitties_count(st, owner), kitty)]
      st2 == [st1 EXCEPT !.KittiesCount = kitty_id + 1]
      user_kitties_count == owned_kitties_count(st2, owner)
      st3 == [st2 EXCEPT !.OwnedKittiesCount[owner] = (user_kitties_count + 1) % (U32Max + 1)]
      st4 == [st3 EXCEPT !.OwnedKitties = MapInsert(@, <<owner, user_kitties_count>>, kitty_id)]
  IN IF user_kitties_count = U32Max /\ overflow_checks
     THEN Return("Panic", st2)
     ELSE Return("Ok", st4)

\* insert_kitty with the counter left where it was
insert_kitty_no_advance(st, owner, kitty_id, kitty, overflow_checks) ==
  LET st1 == [st EXCEPT !.Kitties = MapInsert(@, kitty_id, kitty)]
      st2 == [st1 EXCEPT !.KittiesCount = kitty_id]
      user_kitties_count == owned_kitties_count(st2, owner)
      st3 == [st2 EXCEPT !.OwnedKittiesCount[owner] = (user_kitties_count + 1) % (U32Max + 1)]
      st4 == [st3 EXCEPT !.OwnedKitties = MapInsert(@, <<owner, user_kitties_count>>, kitty_id)]
  IN IF user_kitties_count = U32Max /\ overflow_checks
     THEN Return("Panic", st2)
     ELSE Return("Ok", st4)

\* insert_kitty.  user_kitties_count + 1 is the one addition of the pallet
\* that no check guards: with overflow checks the call panics there, after
\* the first two writes; without them the sum wraps.
insert_kitty(st, owner, kitty_id, kitty, overflow_checks) ==
  LET st1 == [st EXCEPT !.Kitties = MapInsert(@, kitty_id, kitty)]
      st2 == [st1 EXCEPT !.KittiesCount = kitty_id + 1]
      user_kitties_count == owned_kitties_count(st2, owner)
      st3 == [st2 EXCEPT !.OwnedKittiesCount[owner] = (user_kitties_count + 1) % (U32Max + 1)]
      st4 == [st3 EXCEPT !.OwnedKitties = MapInsert(@, <<owner, user_kitties_count>>, kitty_id)]
  IN IF user_kitties_count = U32Max /\ overflow_checks
     THEN Return("Panic", st2)
     ELSE Return("Ok", st4)

\* the parent check left out
different_parent_unchecked(kitty_id_1, kitty_id_2) == TRUE

\* ensure!(kitty_id_1 != kitty_id_2, ..)
different_parent(kitty_id_1, kitty_id_2) == kitty_id_1 # kitty_id_2

do_breed(st, sender, kitty_id_1, kitty_id_2, selector, overflow_checks) ==
  LET kitty1 == kitties(st, kitty_id_1)
      kitty2 == kitties(st, kitty_id_2)
      next == next_kitty_id(st)
      new_dna == [i \in 1..DnaLen |-> combine_dna(kitty1.v[i], kitty2.v[i], selector[i])]
  IN IF ~kitty1.some THEN Return("InvalidKittyId", st)
     ELSE IF ~kitty2.some THEN Return("InvalidKittyId", st)
     ELSE IF ~different_parent(kitty_id_1, kitty_id_2) THEN Return("RequireDifferentParent", st)
     ELSE IF ~next.ok THEN Return("KittiesCountOverflow", st)
     ELSE insert_kitty(st, sender, next.id, new_dna, overflow_checks)

\* ------------------------------------------------------------------ the dispatchables
create_call(st, origin, dna, overflow_checks) ==
  LET sender == ensure_signed(origin)
      next == next_kitty_id(st)
  IN IF ~sender.ok THEN Return("BadOrigin", st)
     ELSE IF ~next.ok THEN Return("KittiesCountOverflow", st)
     ELSE insert_kitty(st, sender.who, next.id, dna, overflow_checks)

breed_call(st, origin, kitty_id_1, kitty_id_2, selector, overflow_checks) ==
  LET sender == ensure_signed(origin)
  IN IF ~sender.ok THEN Return("BadOrigin", st)
     ELSE do_breed(st, sender.who, kitty_id_1, kitty_id_2, selector, overflow_checks)

\* the range check with >= for >
slot_in_range_inclusive(from_user_kitties_count, user_kitty_id) ==
  from_user_kitties_count >= user_kitty_id

\* ensure!(from_user_kitties_count > user_kitty_id, ..)
slot_in_range(from_user_kitties_count, user_kitty_id) ==
  from_user_kitties_count > user_kitty_id

\* the recipient check against a count no u32 exceeds
to_is_full_never(to_user_kitties_count) == to_user_kitties_count > U32Max

\* if to_user_kitties_count == u32::max_value()
to_is_full(to_user_kitties_count) == to_user_kitties_count = U32Max

\* remove_from_user removing by slot number alone, whoever the owner
remove_from_user_slot_only(st, sender, user_kitty_id, from_user_kitties_count) ==
  LET st1 == [st EXCEPT !.OwnedKittiesCount[sender] = from_user_kitties_count - 1]
      from_last_kitty_id == owned_kitties(st1, sender, from_user_kitties_count - 1)
      RemoveSlot(m, slot) == [x \in {y \in DOMAIN m : y[2] # slot} |-> m[x]]
  IN IF user_kitty_id + 1 # from_user_kitties_count
     THEN [st1 EXCEPT !.OwnedKitties =
             MapInsert(RemoveSlot(@, from_user_kitties_count - 1),
                       <<sender, user_kitty_id>>, from_last_kitty_id)]
     ELSE [st1 EXCEPT !.OwnedKitties = RemoveSlot(@, user_kitty_id)]

\* remove_from_user with the last slot tested one off
remove_from_user_last_off(st, sender, user_kitty_id, from_user_kitties_count) ==
  LET st1 == [st EXCEPT !.OwnedKittiesCount[sender] = from_user_kitties_count - 1]
      from_last_kitty_id == owned_kitties(st1, sender, from_user_kitties_count - 1)
  IN IF user_kitty_id # from_user_kitties_count
     THEN [st1 EXCEPT !.OwnedKitties =
             MapInsert(MapRemove(@, <<sender, from_user_kitties_count - 1>>),
                       <<sender, user_kitty_id>>, from_last_kitty_id)]
     ELSE [st1 EXCEPT !.OwnedKitties = MapRemove(@, <<sender, user_kitty_id>>)]

\* "remove the from user kitty"
remove_from_user(st, sender, user_kitty_id, from_user_kitties_count) ==
  LET st1 == [st EXCEPT !.OwnedKittiesCount[sender] = from_user_kitties_count - 1]
      from_last_kitty_id == owned_kitties(st1, sender, from_user_kitties_count - 1)
  IN IF user_kitty_id + 1 # from_user_kitties_count
     THEN [st1 EXCEPT !.OwnedKitties =
             MapInsert(MapRemove(@, <<sender, from_user_kitties_count - 1>>),
                       <<sender, user_kitty_id>>, from_last_kitty_id)]
     ELSE [st1 EXCEPT !.OwnedKitties = MapRemove(@, <<sender, user_kitty_id>>)]

\* "add the to user kitty"
add_to_user(st, to, to_user_kitties_count, kitty_id) ==
  LET st1 == [st EXCEPT !.OwnedKittiesCount[to] = to_user_kitties_count + 1]
  IN [st1 EXCEPT !.OwnedKitties = MapInsert(@, <<to, to_user_kitties_count + 1>>, kitty_id)]

\* transfer with the recipient looked up and checked after the caller's side
\* has been written
transfer_call_late_check(st, origin, user_kitty_id, to_source) ==
  LET sender == ensure_signed(origin)
      from_user_kitties_count == owned_kitties_count(st, sender.who)
      to == lookup(to_source)
      to_user_kitties_count == owned_kitties_count(st, to.who)
      kitty_id == owned_kitties(st, sender.who, user_kitty_id)
      removed == remove_from_user(st, sender.who, user_kitty_id, from_user_kitties_count)
  IN IF ~sender.ok THEN Return("BadOrigin", st)
     ELSE IF ~slot_in_range(from_user_kitties_count, user_kitty_id)
       THEN Return("UserNotHaveTheKitty", st)
     ELSE IF ~to.ok THEN Return("LookupError", removed)
     ELSE IF to_is_full(to_user_kitties_count) THEN Return("KittiesCountOverflow", removed)
     ELSE Return("Ok", add_to_user(removed, to.who, to_user_kitties_count, kitty_id))

transfer_call(st, origin, user_kitty_id, to_source) ==
  LET sender == ensure_signed(origin)
      from_user_kitties_count == owned_kitties_count(st, sender.who)
      to == lookup(to_source)
      to_user_kitties_count == owned_kitties_count(st, to.who)
      kitty_id == owned_kitties(st, sender.who, user_kitty_id)
  IN IF ~sender.ok THEN Return("BadOrigin", st)
     ELSE IF ~slot_in_range(from_user_kitties_count, user_kitty_id)
       THEN Return("UserNotHaveTheKitty", st)
     ELSE IF ~to.ok THEN Return("LookupError", st)
     ELSE IF to_is_full(to_user_kitties_count) THEN Return("KittiesCountOverflow", st)
     ELSE Return("Ok",
            add_to_user(remove_from_user(st, sender.who, user_kitty_id, from_user_kitties_count),
                        to.who, to_user_kitties_count, kitty_id))

\* ------------------------------------------------------------------ the state machine
Init ==
  /\ Kitties = EmptyMap
  /\ KittiesCount = 0
  /\ OwnedKitties = EmptyMap
  /\ OwnedKittiesCount = [a \in Accounts |-> 0]
  /\ last = [op |-> "none", origin |-> 0, a1 |-> 0, a2 |-> 0, to |-> 0, rand |-> <<>>,
             result |-> "none"]
  /\ pre = [Kitties |-> EmptyMap, KittiesCount |-> 0, OwnedKitties |-> EmptyMap,
            OwnedKittiesCount |-> [a \in Accounts |-> 0]]
  /\ calls = 0
  /\ halted = FALSE

\* a call commits what it returns; a panic ends the run.  last keeps the
\* call, its result and, when the call got as far as random_value, the value
\* random_value gave it.
Commit(r, l) ==
  /\ Kitties' = r.st.Kitties
  /\ KittiesCount' = r.st.KittiesCount
  /\ OwnedKitties' = r.st.OwnedKitties
  /\ OwnedKittiesCount' = r.st.OwnedKittiesCount
  /\ last' = [l EXCEPT !.result = r.result,
                       !.rand = IF r.result \in {"Ok", "Panic"} THEN @ ELSE <<>>]
  /\ pre' = Store
  /\ calls' = calls + 1
  /\ halted' = (r.result = "Panic")

\* The host admits the next call when the previous one has returned.  A run
\* is followed through its successful calls and up to the first call that
\* returns an error: an error is returned before the first write of a call
\* (C6_AllOrNothing checks it on every such call), so the calls after a
\* failed one start from storage the run had already reached.
CanCall == ~halted /\ calls < MaxCalls /\ last.result \in {"none", "Ok"}

\* the builds that differ on this call: with and without overflow checks when
\* the caller's count is at the maximum, one build otherwise
Builds(origin) ==
  IF origin \in Accounts /\ OwnedKittiesCount[origin] = U32Max THEN BOOLEAN ELSE {FALSE}

create ==
  /\ CanCall
  /\ \E origin \in Origins, dna \in RandomValues :
       \E overflow_checks \in Builds(origin) :
         \E r \in {create_call(Store, origin, dna, overflow_checks)} :
           Commit(r, [op |-> "create", origin |-> origin, a1 |-> 0, a2 |-> 0, to |-> 0,
                      rand |-> dna, result |-> ""])

breed ==
  /\ CanCall
  /\ \E origin \in Origins, kitty_id_1 \in U32, kitty_id_2 \in U32, selector \in RandomValues :
       \E overflow_checks \in Builds(origin) :
         \E r \in {breed_call(Store, origin, kitty_id_1, kitty_id_2, selector, overflow_checks)} :
           Commit(r, [op |-> "breed", origin |-> origin, a1 |-> kitty_id_1, a2 |-> kitty_id_2,
                      to |-> 0, rand |-> selector, result |-> ""])

transfer ==
  /\ CanCall
  /\ \E origin \in Origins, user_kitty_id \in U32, to \in Sources :
       \E r \in {transfer_call(Store, origin, user_kitty_id, to)} :
         Commit(r, [op |-> "transfer", origin |-> origin, a1 |-> user_kitty_id, a2 |-> 0,
                    to |-> to, rand |-> <<>>, result |-> ""])

Next == create \/ breed \/ transfer

Spec == Init /\ [][Next]_vars

\* runs of create calls only
NextCreate == create

SpecCreate == Init /\ [][NextCreate]_vars

\* ------------------------------------------------------------------ typing
TypeOK ==
  /\ KittiesCount \in U32
  /\ DOMAIN Kitties \subseteq U32
  /\ \A id \in DOMAIN Kitties : Kitties[id] \in [1..DnaLen -> U8]
  /\ DOMAIN OwnedKitties \subseteq Accounts \X U32
  /\ \A k \in DOMAIN OwnedKitties : OwnedKitties[k] \in U32
  /\ OwnedKittiesCount \in [Accounts -> U32]
  /\ calls \in 0..MaxCalls
  /\ halted \in BOOLEAN

\* ------------------------------------------------------------------ vocabulary of the properties
\* the last call was op, made by a signed origin
Called(op) == last.op = op /\ last.origin \in Accounts
Succeeded(op) == Called(op) /\ last.result = "Ok"
\* the results that are returned errors
Errors == {"BadOrigin", "KittiesCountOverflow", "InvalidKittyId", "RequireDifferentParent",
           "UserNotHaveTheKitty", "LookupError"}
\* the populated slots of an owner, and the ids stored in them
Slots(st, who) == {s \in U32 : <<who, s>> \in DOMAIN st.OwnedKitties}
IdsOf(st, who) == {st.OwnedKitties[<<who, s>>] : s \in Slots(st, who)}
\* slot s of who is the same before and after the last call: populated in both
\* with one id, or populated in neither
SameSlot(who, s) ==
  /\ (<<who, s>> \in DOMAIN OwnedKitties) = (<<who, s>> \in DOMAIN pre.OwnedKitties)
  /\ <<who, s>> \in DOMAIN OwnedKitties => OwnedKitties[<<who, s>>] = pre.OwnedKitties[<<who, s>>]

\* C1: density -- in every state, for every owner, the populated slots are
\* exactly the slots 0 .. count-1.
C1_Density ==
  \A o \in Accounts : Slots(Store, o) = 0..(OwnedKittiesCount[o] - 1)

\* C2: single ownership -- in every state, every entity that exists is stored
\* in exactly one populated (owner, slot) pair.
C2_SingleOwnership ==
  \A id \in DOMAIN Kitties :
    Cardinality({k \in DOMAIN OwnedKitties : OwnedKitties[k] = id}) = 1

\* C3: recipient side -- after a successful transfer to another account that
\* had n entities, the recipient has n+1, the transferred id is at its slot
\* n, and its slots below n are unchanged.
C3_RecipientAppend ==
  (Succeeded("transfer") /\ last.to # last.origin) =>
    LET n == pre.OwnedKittiesCount[last.to]
    IN /\ OwnedKittiesCount[last.to] = n + 1
       /\ <<last.to, n>> \in DOMAIN OwnedKitties
       /\ OwnedKitties[<<last.to, n>>] = owned_kitties(pre, last.origin, last.a1)
       /\ \A s \in 0..(n - 1) : SameSlot(last.to, s)

\* C4: source side -- after a successful transfer to another account by a
\* caller that had c entities, the caller has c-1, its slot c-1 is cleared,
\* its slot localSlot (when it is not c-1) is populated with what slot c-1
\* held, and all its other slots are as before.  What a slot holds is what
\* the getter owned_kitties returns for it.
C4_SourceSwapRemove ==
  (Succeeded("transfer") /\ last.to # last.origin) =>
    LET c == pre.OwnedKittiesCount[last.origin]
    IN /\ OwnedKittiesCount[last.origin] = c - 1
       /\ <<last.origin, c - 1>> \notin DOMAIN OwnedKitties
       /\ last.a1 # c - 1 =>
            /\ <<last.origin, last.a1>> \in DOMAIN OwnedKitties
            /\ OwnedKitties[<<last.origin, last.a1>>] = owned_kitties(pre, last.origin, c - 1)
       /\ \A s \in U32 \ {last.a1, c - 1} : SameSlot(last.origin, s)

\* a middle slot was transferred away and the last slot, which was populated,
\* was moved into it
C4_Witness ==
  /\ Succeeded("transfer") /\ last.to # last.origin
  /\ last.a1 + 1 < pre.OwnedKittiesCount[last.origin]
  /\ <<last.origin, pre.OwnedKittiesCount[last.origin] - 1>> \in DOMAIN pre.OwnedKitties
  /\ <<last.origin, last.a1>> \in DOMAIN pre.OwnedKitties
  /\ pre.OwnedKitties[<<last.origin, last.a1>>]
       # pre.OwnedKitties[<<last.origin, pre.OwnedKittiesCount[last.origin] - 1>>]

\* C5: self-transfer -- after a successful transfer to the caller itself the
\* caller's count and the set of ids it owns are what they were.
C5_SelfTransferRoundTrip ==
  (Succeeded("transfer") /\ last.to = last.origin) =>
    /\ OwnedKittiesCount[last.origin] = pre.OwnedKittiesCount[last.origin]
    /\ IdsOf(Store, last.origin) = IdsOf(pre, last.origin)

\* C6: all-or-nothing -- whenever a call returns an error, the entity map,
\* the entity counter, every owner's count and every ownership slot are what
\* they were before the call.
C6_AllOrNothing ==
  last.result \in Errors => Store = pre

\* a transfer of a slot the caller has failed at the lookup of the recipient,
\* in a state that has entities and slots to lose
C6_Witness ==
  /\ Called("transfer") /\ last.result = "LookupError"
  /\ last.a1 < pre.OwnedKittiesCount[last.origin]
  /\ <<last.origin, last.a1>> \in DOMAIN pre.OwnedKitties

\* C7: no owner count wraps -- no create, breed or transfer increments an
\* owner count that is already u32::MAX, and the count of the owner a create
\* or breed appends to does not get smaller.
C7_OwnerCountNeverWraps ==
  /\ ((Called("create") \/ Called("breed")) /\ last.result \in {"Ok", "Panic"}) =>
       pre.OwnedKittiesCount[last.origin] < U32Max
  /\ (Succeeded("create") \/ Succeeded("breed")) =>
       OwnedKittiesCount[last.origin] > pre.OwnedKittiesCount[last.origin]
  /\ Succeeded("transfer") => pre.OwnedKittiesCount[last.to] < U32Max

\* C8 as stated: breed with one id as both parents fails with
\* RequireDifferentParent for every id, and creates nothing.
C8_SameParentAlwaysRequireDifferentParent ==
  (Called("breed") /\ last.a1 = last.a2) =>
    /\ last.result = "RequireDifferentParent"
    /\ Kitties = pre.Kitties
    /\ KittiesCount = pre.KittiesCount

\* C8 amended: breed with one id as both parents always fails and changes
\* nothing; the error is RequireDifferentParent when an entity with that id
\* exists and InvalidKittyId when none does.
C8_SameParentFails ==
  (Called("breed") /\ last.a1 = last.a2) =>
    /\ last.result = IF last.a1 \in DOMAIN pre.Kitties
                     THEN "RequireDifferentParent" ELSE "InvalidKittyId"
    /\ Store = pre

\* an existing entity was given as both parents while the counter had room
C8_Witness ==
  /\ Called("breed") /\ last.a1 = last.a2
  /\ last.a1 \in DOMAIN pre.Kitties
  /\ pre.KittiesCount < U32Max
  /\ last.result = "RequireDifferentParent"

\* C9: transfer to a full recipient -- a transfer of a slot below the
\* caller's count to a recipient whose count is u32::MAX fails with the
\* overflow error and changes nothing.
C9_FullRecipientRejected ==
  (/\ Called("transfer")
   /\ last.a1 < pre.OwnedKittiesCount[last.origin]
   /\ last.to \in Accounts
   /\ pre.OwnedKittiesCount[last.to] = U32Max) =>
    /\ last.result = "KittiesCountOverflow"
    /\ Store = pre

\* a caller offered a slot it has to another account whose count was u32::MAX
C9_Witness ==
  /\ Called("transfer")
  /\ last.to \in Accounts /\ last.to # last.origin
  /\ last.a1 < pre.OwnedKittiesCount[last.origin]
  /\ <<last.origin, last.a1>> \in DOMAIN pre.OwnedKitties
  /\ pre.OwnedKittiesCount[last.to] = U32Max
  /\ last.result = "KittiesCountOverflow"

\* C10: slot range check -- a transfer fails with UserNotHaveTheKitty exactly
\* when localSlot >= countOf(caller), and then changes nothing.
C10_SlotRangeCheck ==
  Called("transfer") =>
    /\ (last.result = "UserNotHaveTheKitty") = (last.a1 >= pre.OwnedKittiesCount[last.origin])
    /\ last.result = "UserNotHaveTheKitty" => Store = pre

\* a caller that owns entities offered the slot one past its last
C10_Witness ==
  /\ Called("transfer")
  /\ pre.OwnedKittiesCount[last.origin] > 0
  /\ last.a1 = pre.OwnedKittiesCount[last.origin]
  /\ last.to \in Accounts
  /\ last.result = "UserNotHaveTheKitty"

\* C11: entity counter -- in every state the stored ids are exactly
\* 0 .. counter-1 (so the counter is the number of entities); the counter
\* never gets smaller, a successful create or breed raises it by exactly one,
\* and a transfer or a call that returns an error leaves it unchanged.
C11_EntityCounter ==
  /\ DOMAIN Kitties = 0..(KittiesCount - 1)
  /\ Cardinality(DOMAIN Kitties) = KittiesCount
  /\ KittiesCount >= pre.KittiesCount
  /\ (Succeeded("create") \/ Succeeded("breed")) => KittiesCount = pre.KittiesCount + 1
  /\ (last.op = "transfer" \/ last.result \in Errors) => KittiesCount = pre.KittiesCount

\* a breed took the counter from 2 to 3
C11_Witness ==
  /\ Succeeded("breed")
  /\ pre.KittiesCount = 2
  /\ KittiesCount = 3

\* the parents of the last breed exist and are two entities
ValidParents == last.a1 \in DOMAIN pre.Kitties /\ last.a2 \in DOMAIN pre.Kitties /\ last.a1 # last.a2

\* C12: counter exhaustion -- a create, or a breed of two existing distinct
\* parents, fails with KittiesCountOverflow exactly when the counter is
\* u32::MAX before the call; no create or breed fails with it below
\* u32::MAX; and when they fail with it nothing changes.
C12_CounterExhaustion ==
  /\ Called("create") =>
       ((last.result = "KittiesCountOverflow") = (pre.KittiesCount = U32Max))
  /\ (Called("breed") /\ ValidParents) =>
       ((last.result = "KittiesCountOverflow") = (pre.KittiesCount = U32Max))
  /\ (Called("breed") /\ last.result = "KittiesCountOverflow") => pre.KittiesCount = U32Max
  /\ ((Called("create") \/ Called("breed")) /\ last.result = "KittiesCountOverflow") =>
       Store = pre

\* two existing entities were bred with the counter at u32::MAX
C12_Witness ==
  /\ Called("breed") /\ ValidParents
  /\ pre.KittiesCount = U32Max
  /\ last.result = "KittiesCountOverflow"

\* C13 as stated: in a run of create calls from the empty state, the call
\* that assigns the id u32::MAX (the call made with the counter at u32::MAX)
\* succeeds, as do all the calls before it.
C13_IdMaxIsAssigned ==
  (Called("create") /\ pre.KittiesCount <= U32Max) => last.result = "Ok"

\* C13 amended: in a run of create calls from the empty state, every call
\* made with the counter below u32::MAX succeeds and assigns the counter as
\* the new id, so the last id assigned is u32::MAX - 1; the call that would
\* assign the id u32::MAX fails with KittiesCountOverflow and changes nothing.
C13_LastIdBoundary ==
  Called("create") =>
    IF pre.KittiesCount < U32Max
    THEN /\ last.result = "Ok"
         /\ DOMAIN Kitties = DOMAIN pre.Kitties \cup {pre.KittiesCount}
         /\ pre.KittiesCount \notin DOMAIN pre.Kitties
    ELSE /\ last.result = "KittiesCountOverflow"
         /\ Store = pre

\* after the ids 0 .. u32::MAX - 1 were assigned, one more create was refused
C13_Witness ==
  /\ Called("create")
  /\ DOMAIN pre.Kitties = 0..(U32Max - 1)
  /\ last.result = "KittiesCountOverflow"

\* C14: write-once -- every entity that existed before a call exists after
\* it with the same payload, and a transfer leaves the entity map and the
\* entity counter as they were.
C14_WriteOnce ==
  /\ \A id \in DOMAIN pre.Kitties : id \in DOMAIN Kitties /\ Kitties[id] = pre.Kitties[id]
  /\ last.op = "transfer" => (Kitties = pre.Kitties /\ KittiesCount = pre.KittiesCount)

\* an entity was created next to an older one with another payload
C14_Witness ==
  /\ Succeeded("create")
  /\ 0 \in DOMAIN pre.Kitties
  /\ Kitties[pre.KittiesCount] # pre.Kitties[0]
  /\ Kitties[0] = pre.Kitties[0]

\* C15: effect of a successful create or breed -- with counter n and caller
\* count k before the call, afterwards the entity n exists, the counter is
\* n+1, the caller's count is k+1 and the caller's slot k holds n.
C15_CreateEffect ==
  (Succeeded("create") \/ Succeeded("breed")) =>
    LET n == pre.KittiesCount
        k == pre.OwnedKittiesCount[last.origin]
    IN /\ n \in DOMAIN Kitties /\ n \notin DOMAIN pre.Kitties
       /\ KittiesCount = n + 1
       /\ OwnedKittiesCount[last.origin] = k + 1
       /\ <<last.origin, k>> \in DOMAIN OwnedKitties
       /\ OwnedKitties[<<last.origin, k>>] = n

\* C16: genetic mix -- after a successful breed of A and B with selector s,
\* every bit of every byte of the child is the bit of A where the bit of s
\* is 1 and the bit of B where it is 0; and a = 10101010, b = 01010101,
\* s = 11110000 give 10100101.
C16_GeneticMix ==
  /\ Succeeded("breed") =>
       LET a == pre.Kitties[last.a1]
           b == pre.Kitties[last.a2]
           s == last.rand
           child == Kitties[pre.KittiesCount]
       IN /\ DOMAIN child = 1..DnaLen
          /\ \A i \in 1..DnaLen : \A j \in 0..7 :
               Bit(child[i], j) = IF Bit(s[i], j) = 1 THEN Bit(a[i], j) ELSE Bit(b[i], j)
  /\ combine_dna(170, 85, 240) = 165

\* a child was bred that has bits of both parents: it is neither of them
C16_Witness ==
  /\ Succeeded("breed")
  /\ Kitties[pre.KittiesCount] # pre.Kitties[last.a1]
  /\ Kitties[pre.KittiesCount] # pre.Kitties[last.a2]
  /\ pre.Kitties[last.a1] # pre.Kitties[last.a2]

\* C17: a transfer moves an entity the caller owns -- every successful
\* transfer reads a populated slot of the caller, and the id of that slot is
\* recorded under the recipient after the call.
C17_TransferMovesOwned ==
  Succeeded("transfer") =>
    /\ <<last.origin, last.a1>> \in DOMAIN pre.OwnedKitties
    /\ pre.OwnedKitties[<<last.origin, last.a1>>] \in IdsOf(Store, last.to)

\* the sum of the counts of the accounts 1 .. n
RECURSIVE SumCounts(_, _)
SumCounts(counts, n) == IF n = 0 THEN 0 ELSE counts[n] + SumCounts(counts, n - 1)

\* C18: conservation of counts -- in every state the sum of the owners'
\* counts is the entity counter; a successful create or breed raises both by
\* one and a transfer changes neither.
C18_Conservation ==
  /\ SumCounts(OwnedKittiesCount, NumAccounts) = KittiesCount
  /\ (Succeeded("create") \/ Succeeded("breed")) =>
       /\ SumCounts(OwnedKittiesCount, NumAccounts)
            = SumCounts(pre.OwnedKittiesCount, NumAccounts) + 1
       /\ KittiesCount = pre.KittiesCount + 1
  /\ last.op = "transfer" =>
       /\ SumCounts(OwnedKittiesCount, NumAccounts) = SumCounts(pre.OwnedKittiesCount, NumAccounts)
       /\ KittiesCount = pre.KittiesCount

\* the accounts the last call is about: its caller, and for a transfer the
\* resolved recipient
Involved == IF last.op = "transfer" THEN {last.origin, last.to} ELSE {last.origin}

\* C19: third parties are untouched -- a call changes the count and the
\* slots of no account other than its caller and, for a transfer, the
\* resolved recipient.
C19_ThirdPartiesUntouched ==
  \A o \in Accounts \ Involved :
    /\ OwnedKittiesCount[o] = pre.OwnedKittiesCount[o]
    /\ \A s \in U32 : SameSlot(o, s)

\* an entity moved between two accounts while a third one owned entities,
\* one of them at the slot number the caller gave up
C19_Witness ==
  /\ Succeeded("transfer") /\ last.to # last.origin
  /\ \E o \in Accounts \ {last.origin, last.to} :
       /\ pre.OwnedKittiesCount[o] > 0
       /\ <<o, pre.OwnedKittiesCount[last.origin] - 1>> \in DOMAIN pre.OwnedKitties

====
